---- MODULE Spec2Model ----
(***************************************************************************)
(* ApiService (rendomnet/apiservice): the retry / hook orchestration of    *)
(* ApiService.call and makeRequestWithRetry, with HookManager,             *)
(* RetryManager, AccountManager and CacheManager.                          *)
(*                                                                         *)
(* Concurrency is JavaScript's: one thread, a FIFO queue of promise        *)
(* reaction jobs.  Every `await` of the orchestrator is a suspension; the  *)
(* awaited promise is settled either by a collaborator (auth provider,     *)
(* transport, hook handler, hook callbacks, timer), at any moment, or by   *)
(* the return of one of the service's own async functions.  Settling a     *)
(* promise appends the continuations waiting on it to the job queue in     *)
(* the order in which they started to wait; RunJob runs the job at the     *)
(* head of the queue up to its next await.                                 *)
(***************************************************************************)
EXTENDS Integers, Sequences, FiniteSets, TLC

\* ---------------------------------------------------------------- bounds
\* the logical calls made concurrently in Spec
MaxCalls == 2

\* the logical calls: Spec makes the first MaxCalls of them, SpecRace one more
Calls == 1..(MaxCalls + 1)

\* ------------------------------------------------------ program constants
\* index.ts:35  private maxAttempts = 10
DefaultMaxAttempts == 10
\* RetryManager.ts:8  private defaultMaxRetries = 4
DefaultMaxRetries == 4
\* types.ts:85  private cacheTime = 20000
DefaultCacheTime == 20000
\* RetryManager.defaultMaxDelay
DefaultMaxDelay == 60000

\* ------------------------------------------------------------ value sets
\* accountId of a call; a call without accountId uses 'default' (index.ts:149)
Accounts == {"default", "acc1"}
\* error.status of a failed physical attempt; NoStatus: the error carries none
Statuses == {401, 429}
NoStatus == 0
\* an optional number that is not given (maxRetries, cacheTime)
Undefined == -1

\* Values settled promises carry and calls end with: <<kind, a, b>>.
Nothing == <<"none", 0, 0>>
\* the response of a successful attempt (d identifies the data)
Response(d) == <<"ok", d, 0>>
\* the error of the n-th physical attempt of a call, with status s
AttemptError(s, n) == <<"http", s, n>>
\* new Error(`${provider} credentials not found ...`) (index.ts:224)
CredentialsError == <<"nocreds", NoStatus, 0>>
\* new Error(`Exceeded maximum attempts ...`) (index.ts:279)
ExceededError == <<"exceeded", NoStatus, 0>>
\* the rejection of handler execution e
HandlerError(e) == <<"handler", NoStatus, e>>
\* what a throwing onMaxRetriesExceeded (1) / onHandlerError (2) throws
CallbackError(w) == <<"callback", NoStatus, w>>

\* the headers getAuthHeaders resolves with: Authorization: Bearer <token t>
Headers(t) == <<"headers", NoStatus, t>>

\* The entries of a headers object: none, the provider's `Bearer <token t>`, or the
\* k-th value a handler's patch can carry
NoHeaderEntry == <<"absent", 0>>
Bearer(t) == <<"bearer", t>>
Patched(k) == <<"patch", k>>
HeaderNames == {"Authorization", "Trace"}
NoHeaders == [h \in HeaderNames |-> NoHeaderEntry]

\* ApiCallParams, as far as a patch can change it: a top-level field (data) and the
\* headers object
Params(data, headers) == [data |-> data, headers |-> headers]

\* a PartialRequestPatch: data is Undefined when the patch has no such field, and
\* hasHeaders tells whether it has a headers field
Patch(data, hasHeaders, headers) ==
  [data |-> data, hasHeaders |-> hasHeaders, headers |-> headers]
EmptyPatch == Patch(Undefined, FALSE, NoHeaders)

\* { ...currentParams, ...hookResult }: a field of the patch replaces the field of
\* the parameters as a whole
MergePatch(params, patch) ==
  Params(IF patch.data # Undefined THEN patch.data ELSE params.data,
         IF patch.hasHeaders THEN patch.headers ELSE params.headers)

\* { ...(currentParams.headers || {}), ...authHeaders }
MergeAuthHeaders(headers, authHeaders) ==
  IF authHeaders[1] = "headers"
  THEN [headers EXCEPT !["Authorization"] = Bearer(authHeaders[3])]
  ELSE headers

IsError(v) == v[1] \notin {"ok", "none", "headers"}

\* ----------------------------------------------------------------- hooks
\* HookSettings.  handler: "none" | "user" | "refresh" (the default 401 hook's).
\* onMaxRetriesExceeded: "none" | "user" | "log" (the default 401 hook's, which only
\* logs); onHandlerError: "none" | "user".
Hook(sr, ud, pcc, mr, h, om, oe) ==
  [kind |-> "hook", shouldRetry |-> sr, useRetryDelay |-> ud,
   preventConcurrentCalls |-> pcc, maxRetries |-> mr, handler |-> h,
   onMaxRetriesExceeded |-> om, onHandlerError |-> oe]
\* hooks[status] === undefined, and an explicit null entry of setup's hooks option
NoHook == [Hook(FALSE, FALSE, FALSE, Undefined, "none", "none", "none") EXCEPT !.kind = "undefined"]
NullHook == [NoHook EXCEPT !.kind = "null"]

VARIABLES
  ready,          \* setup has been called
  authHasRefresh, \* typeof authProvider.refresh === 'function'
  maxAttempts,    \* ApiService.maxAttempts
  hooks,          \* HookManager.hooks: status -> hook or NoHook
  hookPromises,   \* HookManager.hookPromises: <<accountId, status>> -> the call whose
                  \* handler execution is stored, 0 if absent
  execs,          \* the latest handler execution each call started: call -> execution
  accounts,       \* AccountManager.accounts[id].lastFailed: "undefined" | "true" | "false"
  cache,          \* CacheManager.cache: request key -> entry
  cacheTime,      \* CacheManager.cacheTime
  now,            \* Date.now()
  jobs,           \* the queue of promise reaction jobs (calls to resume)
  call,           \* the logical calls
  hooksOption,    \* the hooks option setup was called with
  queryParamName, \* authProvider is an ApiKeyAuthProvider with queryParamName (and
                  \* no headerName)
  defaultMaxDelay, \* RetryManager.defaultMaxDelay
  timer,          \* the last timer RetryManager.calculateAndDelay armed
  token,          \* the access token the token service holds for each account,
                  \* as the number of refreshes that produced it
  refreshToken,   \* the refresh token the token service holds for each account
  fetchError      \* the last FetchError constructed, with what it was made from

vars == <<ready, authHasRefresh, maxAttempts, hooks, hookPromises, execs,
          accounts, cache, cacheTime, now, jobs, call,
          hooksOption, queryParamName, defaultMaxDelay, timer, token,
          refreshToken, fetchError>>

\* the variables that only setup, the RetryManager and the clock change
Rest ==
  <<hooksOption, queryParamName, defaultMaxDelay, timer, token, refreshToken,
    fetchError>>

Keys == Accounts \X Statuses

\* ApiCallParams.queryParams: undefined, or a URLSearchParams with some entries
NoQueryParams == [kind |-> "undefined", entries |-> {}]
URLSearchParams(entries) == [kind |-> "URLSearchParams", entries |-> entries]
QueryParams ==
  {NoQueryParams, URLSearchParams({"a=1"}), URLSearchParams({"a=2"})}

\* urlParams.set(queryParamName, apiKey) on a copy of the caller's queryParams
WithApiKey(queryParams) == URLSearchParams(queryParams.entries \cup {"api_key=key"})

\* what a caller passes to call(): route stands for (method, route, base, body),
\* cacheTime is Undefined when not given
ApiCallParams(route, queryParams, ct) ==
  [route |-> route, queryParams |-> queryParams, cacheTime |-> ct]

\* the request the calls of Spec make
DefaultRequest == ApiCallParams("GET /a", NoQueryParams, Undefined)
Requests == {DefaultRequest}
Routes == {"GET /a", "GET /b"}

\* JSON.stringify of queryParams inside the cache key: a URLSearchParams has no
\* enumerable property of its own and is written {}, undefined is left out
JsonStringify(queryParams) ==
  IF queryParams.kind = "undefined" THEN "" ELSE "{}"

CacheKeys == Accounts \X Routes \X {"", "{}"}
\* params: the (accountId, route, queryParams) of the call that stored the entry
NoEntry == [data |-> Undefined, timestamp |-> Undefined,
            params |-> <<"default", "GET /a", NoQueryParams>>]

\* no timer armed yet
\* at: Date.now() when it was armed; attempt, retryAfter, strategy, maxDelay: what
\* calculateAndDelay was called with; defaultMaxDelay: the service-wide default at
\* that time; calculated: calculatedDelay; delay: finalDelay, given to setTimeout
NoTimer ==
  [armed |-> FALSE, at |-> 0, attempt |-> 0,
   retryAfter |-> [kind |-> "none", value |-> 0],
   strategy |-> Undefined, maxDelay |-> Undefined, defaultMaxDelay |-> 0,
   calculated |-> 0, delay |-> 0]

\* apiCallParams.accountId when the caller gives none (undefined, or '')
NoAccountId == ""

\* a call without accountId filed under another account
AccountIdElsewhere(given) == IF given = NoAccountId THEN "acc1" ELSE given

\* apiCallParams.accountId || 'default'
AccountIdOrDefault(given) == IF given = NoAccountId THEN "default" ELSE given

\* a call that has started no handler execution
NoExec == [key |-> <<"default", NoStatus>>, handler |-> "none", state |-> "none",
           waiters |-> <<>>, result |-> EmptyPatch]

NewCall ==
  [pc |-> "idle", settled |-> FALSE, val |-> Nothing,
   accountId |-> "default", useAuth |-> TRUE, request |-> DefaultRequest,
   queryParams |-> NoQueryParams, given |-> "default", cancelled |-> FALSE,
   cred |-> Undefined, params |-> Params(0, NoHeaders), hookResult |-> EmptyPatch,
   attempts |-> 0, statusRetries |-> [s \in Statuses |-> 0],
   error |-> Nothing, status |-> NoStatus, awaiting |-> 0,
   result |-> Nothing,
   \* history:
   \* given: the accountId the caller passed; cancelled: the caller has aborted
   \* the signal it passed as abortSignal; cred: the token in the Authorization
   \* header the provider gave the latest attempt; sent: physical attempts;
   \* recoveries: entries into processHook; handlerRuns: handler invocations;
   \* joined: the last recovery awaited a stored promise, found in joinState;
   \* exit: which exit of the loop ended the call
   sent |-> 0, joined |-> FALSE, joinState |-> "none", handlerRuns |-> 0,
   recoveries |-> 0,
   delays |-> 0, onMaxRuns |-> 0, onErrRuns |-> 0, exit |-> "none"]

\* new ApiService()
Init ==
  /\ ready = FALSE
  /\ authHasRefresh = FALSE
  /\ maxAttempts = DefaultMaxAttempts
  /\ hooks = [s \in Statuses |-> NoHook]
  /\ hookPromises = [k \in Keys |-> 0]
  /\ execs = [c \in Calls |-> NoExec]
  /\ accounts = [a \in Accounts |-> "undefined"]
  /\ cache = [k \in CacheKeys |-> NoEntry]
  /\ cacheTime = DefaultCacheTime
  /\ now = 0
  /\ jobs = <<>>
  /\ call = [c \in Calls |-> NewCall]
  /\ hooksOption = [s \in Statuses |-> NoHook]
  /\ queryParamName = FALSE
  /\ defaultMaxDelay = DefaultMaxDelay
  /\ timer = NoTimer
  /\ token = [a \in Accounts |-> 0]
  /\ refreshToken = [a \in Accounts |-> "r0"]
  /\ fetchError = [made |-> FALSE,
                   data |-> <<<<"other", "">>, <<"other", "">>, <<"other", "">>>>,
                   statusText |-> "", responseStatus |-> NoStatus,
                   status |-> NoStatus, message |-> ""]

\* ----------------------------------------------------------------- setup
\* ApiService.createDefaultAuthRefreshHandler
CreateDefaultAuthRefreshHandler == Hook(TRUE, TRUE, TRUE, 1, "refresh", "log", "none")

\* the hooks option of setup: status -> hook, NullHook (null) or NoHook (no entry)
RateLimitHook == Hook(TRUE, FALSE, TRUE, 2, "user", "user", "user")
BackoffHook == Hook(TRUE, TRUE, FALSE, Undefined, "user", "none", "none")
InfoHook == Hook(FALSE, TRUE, TRUE, 1, "user", "user", "user")
BareHook == Hook(TRUE, FALSE, FALSE, 1, "none", "user", "none")
NoHooks == [s \in Statuses |-> NoHook]
\* the setups made: the auth provider has a refresh method or not, the hooks option
Setups ==
  { [authRefresh |-> FALSE, hooks |-> NoHooks],
    [authRefresh |-> TRUE, hooks |-> NoHooks],
    [authRefresh |-> TRUE, hooks |-> [NoHooks EXCEPT ![429] = RateLimitHook, ![401] = NullHook]],
    [authRefresh |-> FALSE, hooks |-> [NoHooks EXCEPT ![429] = BackoffHook]],
    [authRefresh |-> TRUE, hooks |-> [NoHooks EXCEPT ![401] = BareHook, ![429] = InfoHook]] }

\* a setup that treats a null entry for 401 like a missing one
FinalHooksNullIgnored(authRefresh, hooksOpt) ==
  [s \in Statuses |->
     IF hooksOpt[s].kind = "hook" THEN hooksOpt[s]
     ELSE IF s = 401 /\ authRefresh THEN CreateDefaultAuthRefreshHandler
          ELSE NoHook]

\* a setup that does not look for authProvider.refresh
FinalHooksAnyProvider(authRefresh, hooksOpt) ==
  [s \in Statuses |->
     IF hooksOpt[s].kind = "hook" THEN hooksOpt[s]
     ELSE IF s = 401 /\ hooksOpt[401].kind = "undefined"
          THEN CreateDefaultAuthRefreshHandler
          ELSE NoHook]

\* ApiService.setup: finalHooks, HookManager.setHooks, CacheManager.setCacheTime
FinalHooks(authRefresh, hooksOpt) ==
  [s \in Statuses |->
     IF hooksOpt[s].kind = "hook" THEN hooksOpt[s]
     ELSE IF s = 401 /\ hooksOpt[401].kind = "undefined" /\ authRefresh
          THEN CreateDefaultAuthRefreshHandler
          ELSE NoHook]

\* HookManager.setHooks: this.hooks = { ...this.hooks, ...hooks }
SetHooks(old, new) ==
  [s \in Statuses |-> IF new[s].kind = "hook" THEN new[s] ELSE old[s]]

Setup(authRefresh, hooksOpt, ct, qpn) ==
  /\ ~ready
  /\ ready' = TRUE
  /\ authHasRefresh' = authRefresh
  /\ queryParamName' = qpn
  /\ hooksOption' = hooksOpt
  /\ hooks' = SetHooks(hooks, FinalHooks(authRefresh, hooksOpt))
  /\ cacheTime' = IF ct # Undefined THEN ct ELSE cacheTime
  /\ UNCHANGED <<maxAttempts, hookPromises, execs, accounts, cache, now, jobs, call,
                 defaultMaxDelay, timer, token,
                 refreshToken, fetchError>>

\* ApiService.setMaxAttempts
SetMaxAttempts(n) ==
  /\ ready
  /\ maxAttempts = DefaultMaxAttempts
  /\ \A c \in Calls : call[c].pc = "idle"
  /\ maxAttempts' = n
  /\ UNCHANGED <<ready, authHasRefresh, hooks, hookPromises, execs, accounts,
                 cache, cacheTime, now, jobs, call>>
  /\ UNCHANGED Rest

\* ------------------------------------------------------------ HookManager
\* HookManager.getHook
GetHook(status) == IF status \in Statuses THEN hooks[status] ELSE NoHook

\* a shouldRetry that is true of every status code, configured or not
ShouldRetryAnyStatus(status) == status \in Statuses

\* a shouldRetry that looks at the presence of the hook only
ShouldRetryAnyHook(status) == GetHook(status).kind = "hook"

\* HookManager.shouldRetry: !!hook && !!hook.shouldRetry
ShouldRetry(status) == GetHook(status).kind = "hook" /\ GetHook(status).shouldRetry

\* a retry limit that is one more than configured
MaxRetriesAndOne(status) ==
  IF GetHook(status).maxRetries # Undefined THEN GetHook(status).maxRetries + 1
  ELSE DefaultMaxRetries + 1

\* activeHook?.maxRetries ?? this.retryManager.getDefaultMaxRetries()
MaxRetries(status) ==
  IF GetHook(status).maxRetries # Undefined THEN GetHook(status).maxRetries
  ELSE DefaultMaxRetries

\* a handler execution: hook.handler(accountId, error.response) has been called and
\* its promise is pending, resolved or rejected; waiters are the continuations
\* registered on the pending promise, in order.  An execution is identified by the
\* call that started it: when a call starts another one, nothing refers to its
\* previous one any more.
NewExec(key, c, h) ==
  [key |-> key, handler |-> h, state |-> "pending", waiters |-> <<c>>,
   result |-> EmptyPatch]

\* a handleRetryFailure that marks the account failed before it awaits the callback
HandleRetryFailureMarksFirst(c, r, q) ==
  /\ IF GetHook(r.status).onMaxRetriesExceeded # "none"
     THEN /\ call' = [call EXCEPT ![c] =
                 [r EXCEPT !.pc = "onMax", !.settled = FALSE, !.onMaxRuns = @ + 1]]
          /\ jobs' = q
     ELSE /\ call' = [call EXCEPT ![c] =
                 [r EXCEPT !.pc = "retFail", !.settled = TRUE, !.val = Nothing]]
          /\ jobs' = Append(q, c)
  /\ accounts' = [accounts EXCEPT ![r.accountId] = "true"]
  /\ UNCHANGED <<hookPromises, execs>>

\* HookManager.handleRetryFailure, up to its await
HandleRetryFailure(c, r, q) ==
  /\ IF GetHook(r.status).onMaxRetriesExceeded # "none"
     THEN /\ call' = [call EXCEPT ![c] =
                 [r EXCEPT !.pc = "onMax", !.settled = FALSE, !.onMaxRuns = @ + 1]]
          /\ jobs' = q
     ELSE /\ call' = [call EXCEPT ![c] =
                 [r EXCEPT !.pc = "retFail", !.settled = TRUE, !.val = Nothing]]
          /\ jobs' = Append(q, c)
  /\ UNCHANGED <<hookPromises, execs, accounts>>

\* a processHook that never looks for a stored promise
StoredPromiseIgnored(hook, key) == 0

\* a stored promise looked up by account alone, whatever the status
StoredPromiseOfAccount(hook, key) ==
  IF hook.preventConcurrentCalls /\ \E s \in Statuses : hookPromises[<<key[1], s>>] # 0
  THEN hookPromises[<<key[1], CHOOSE s \in Statuses : hookPromises[<<key[1], s>>] # 0>>]
  ELSE 0

\* if (hook.preventConcurrentCalls) { if (!this.hookPromises[hookKey]) ... }:
\* the stored promise a caller awaits instead of calling the handler, 0 for none
StoredPromise(hook, key) ==
  IF hook.preventConcurrentCalls THEN hookPromises[key] ELSE 0

\* what a caller finds when it awaits a stored promise: "pending" while the handler
\* runs, "settled" when it has settled and the caller that stored it has not resumed
\* yet, "stale" when that caller has resumed already
JoinState(p) ==
  IF execs[p].state = "pending" THEN "pending"
  ELSE IF call[p].pc = "hook" /\ call[p].awaiting = p /\ ~call[p].joined THEN "settled"
  ELSE "stale"

\* HookManager.processHook, up to its await
ProcessHook(c, r, q) ==
  LET hook == GetHook(r.status)
      key == <<r.accountId, r.status>>
      r1 == [r EXCEPT !.recoveries = @ + 1]
  IN
  /\ accounts' = accounts
  /\ IF hook.handler = "none"
     THEN \* if (!hook || !hook.handler) return null
          /\ call' = [call EXCEPT ![c] =
                 [r1 EXCEPT !.pc = "retHook", !.settled = TRUE, !.val = Nothing,
                            !.hookResult = EmptyPatch]]
          /\ jobs' = Append(q, c)
          /\ UNCHANGED <<hookPromises, execs>>
     ELSE IF StoredPromise(hook, key) # 0
     THEN \* await the stored promise
          LET p == StoredPromise(hook, key) IN
          /\ call' = [call EXCEPT ![c] =
                 [r1 EXCEPT !.pc = "hook", !.awaiting = p, !.joined = TRUE,
                            !.joinState = JoinState(p),
                            !.settled = (execs[p].state # "pending")]]
          /\ IF execs[p].state = "pending"
             THEN /\ execs' = [execs EXCEPT ![p].waiters = Append(@, c)]
                  /\ jobs' = q
             ELSE /\ execs' = execs
                  /\ jobs' = Append(q, c)
          /\ hookPromises' = hookPromises
     ELSE \* call the handler; store its promise when preventConcurrentCalls
          /\ call' = [call EXCEPT ![c] =
                 [r1 EXCEPT !.pc = "hook", !.awaiting = c, !.joined = FALSE,
                            !.joinState = "pending",
                            !.settled = FALSE, !.handlerRuns = @ + 1]]
          /\ execs' = [execs EXCEPT ![c] = NewExec(key, c, hook.handler)]
          /\ hookPromises' = IF hook.preventConcurrentCalls
                             THEN [hookPromises EXCEPT ![key] = c]
                             ELSE hookPromises
          /\ jobs' = q

\* ----------------------------------------------------------- CacheManager
\* what a successful attempt can return
Data == {1}
Truthy(d) == d # 0

\* CacheManager.getRequestKey
GetRequestKey(r) == <<r.accountId, r.request.route, JsonStringify(r.queryParams)>>

\* apiCallParams.cacheTime ?? this.cacheTime
CurrentCacheTime(r) ==
  IF r.request.cacheTime # Undefined THEN r.request.cacheTime ELSE cacheTime

\* CacheManager.getFromCache: the data, or Undefined for null
GetFromCache(r) ==
  LET cached == cache[GetRequestKey(r)] IN
  IF cached.timestamp # Undefined /\ now - cached.timestamp < CurrentCacheTime(r)
  THEN cached.data ELSE Undefined

\* a saveToCache that stores the response under every key
SaveToCacheEverywhere(r, d) ==
  [k \in CacheKeys |->
     [data |-> d, timestamp |-> now,
      params |-> <<r.accountId, r.request.route, r.request.queryParams>>]]

\* CacheManager.saveToCache
SaveToCache(r, d) ==
  [cache EXCEPT ![GetRequestKey(r)] =
     [data |-> d, timestamp |-> now,
      params |-> <<r.accountId, r.request.route, r.request.queryParams>>]]

\* --------------------------------------------------------- AccountManager
\* AccountManager.setLastRequestFailed
SetLastRequestFailed(accountId, failed) ==
  [accounts EXCEPT ![accountId] = IF failed THEN "true" ELSE "false"]

\* AccountManager.didLastRequestFail
DidLastRequestFail(accountId) == accounts[accountId] = "true"

\* ------------------------------------------------- makeRequestWithRetry
\* makeRequestWithRetry rejects with err / resolves with v: the continuation of
\* `await this.makeRequestWithRetry(params)` in call() becomes a job
Settle(c, r, q, v, how) ==
  /\ call' = [call EXCEPT ![c] =
        [r EXCEPT !.pc = "ret", !.settled = TRUE, !.result = v, !.exit = how]]
  /\ jobs' = Append(q, c)

\* a loop without the ceiling
LoopUnbounded(r) == TRUE

\* while (attempts < this.maxAttempts)
LoopCondition(r) == r.attempts < maxAttempts

\* the head of the retry loop: while (attempts < this.maxAttempts) { attempts++ ...
\* up to the await of getAuthHeaders or of httpClient.makeRequest; after the loop,
\* the account is marked failed and 'Exceeded maximum attempts' is thrown
LoopTop(c, r, q) ==
  IF LoopCondition(r)
  THEN /\ call' = [call EXCEPT ![c] =
             IF r.useAuth
             THEN [r EXCEPT !.attempts = @ + 1, !.pc = "auth", !.settled = FALSE]
             ELSE [r EXCEPT !.attempts = @ + 1, !.pc = "send", !.settled = FALSE,
                            !.sent = @ + 1]]
       /\ jobs' = q
       /\ accounts' = accounts
  ELSE /\ accounts' = SetLastRequestFailed(r.accountId, TRUE)
       /\ Settle(c, r, q, ExceededError, "exceeded")

\* a retry count shared by all statuses
CountRetryAll(statusRetries, status) ==
  [s \in Statuses |-> statusRetries[s] + 1]

\* statusRetries[status] = (statusRetries[status] || 0) + 1
CountRetry(statusRetries, status) ==
  [statusRetries EXCEPT ![status] = @ + 1]

\* the catch block of the retry loop, up to its first await
Catch(c, r, q, err) ==
  LET status == err[2]
      r0 == [r EXCEPT !.error = err, !.status = status]
      counted == CountRetry(r.statusRetries, status)
  IN
  IF ~ShouldRetry(status)
  THEN /\ Settle(c, r0, q, err, IF err = CredentialsError THEN "nocreds" ELSE "noretry")
       /\ UNCHANGED <<hookPromises, execs, accounts>>
  ELSE LET r1 == [r0 EXCEPT !.statusRetries = counted] IN
       IF counted[status] > MaxRetries(status)
       THEN HandleRetryFailure(c, r1, q)
       ELSE ProcessHook(c, r1, q)

\* a cache hit that also records a successful request for the account
ReturnCachedMarked(c, r, cachedData) ==
  /\ call' = [call EXCEPT ![c] =
        [r EXCEPT !.pc = "done", !.result = Response(cachedData), !.exit = "cache"]]
  /\ accounts' = SetLastRequestFailed(r.accountId, FALSE)
  /\ jobs' = jobs

\* if (cachedData) return cachedData
ReturnCached(c, r, cachedData) ==
  /\ call' = [call EXCEPT ![c] =
        [r EXCEPT !.pc = "done", !.result = Response(cachedData), !.exit = "cache"]]
  /\ UNCHANGED <<jobs, accounts>>

\* ApiService.call up to its first await: the cache check, then
\* makeRequestWithRetry up to its first await
StartCall(c, a, ua, rq) ==
  LET r == [NewCall EXCEPT !.accountId = AccountIdOrDefault(a), !.given = a,
                           !.useAuth = ua, !.request = rq,
                           !.queryParams = IF queryParamName
                                           THEN WithApiKey(rq.queryParams)
                                           ELSE rq.queryParams]
      cachedData == GetFromCache(r)
  IN
  /\ ready
  /\ call[c].pc = "idle"
  /\ \A d \in Calls : d < c => call[d].pc # "idle"
  /\ IF cachedData # Undefined /\ Truthy(cachedData)
     THEN ReturnCached(c, r, cachedData)
     ELSE LoopTop(c, r, jobs)
  /\ UNCHANGED <<ready, authHasRefresh, maxAttempts, hooks, hookPromises, execs,
                 cache, cacheTime, now>>
  /\ UNCHANGED Rest

\* --------------------------------------------- collaborators settle promises
Waiting(c, pcs) == call[c].pc \in pcs /\ ~call[c].settled

Resume(c, v) ==
  /\ call' = [call EXCEPT ![c].settled = TRUE, ![c].val = v]
  /\ jobs' = Append(jobs, c)
  /\ UNCHANGED <<ready, authHasRefresh, maxAttempts, hooks, hookPromises, execs,
                 accounts, cache, cacheTime, now>>
  /\ UNCHANGED Rest

\* authProvider.getAuthHeaders(accountId) resolves, with headers or with {}
AuthSettle(c, empty) ==
  /\ Waiting(c, {"auth"})
  /\ queryParamName => empty  \* ApiKeyAuthProvider.getAuthHeaders without headerName
  /\ Resume(c, IF empty THEN CredentialsError ELSE Headers(token[call[c].accountId]))

\* httpClient.makeRequest resolves with the response data or rejects
TransportOk(c, d) ==
  /\ Waiting(c, {"send"})
  /\ Resume(c, Response(d))

TransportFail(c, s) ==
  /\ Waiting(c, {"send"})
  /\ Resume(c, AttemptError(s, call[c].sent))

\* hook.onMaxRetriesExceeded / hook.onHandlerError resolves or throws
CallbackSettle(c, throws) ==
  /\ Waiting(c, {"onMax", "onErr"})
  /\ throws =>
       IF call[c].pc = "onMax"
       THEN GetHook(call[c].status).onMaxRetriesExceeded = "user"
       ELSE GetHook(call[c].status).onHandlerError = "user"
  /\ Resume(c, IF ~throws THEN Nothing
               ELSE CallbackError(IF call[c].pc = "onMax" THEN 1 ELSE 2))

\* the timer of RetryManager.calculateAndDelay fires: a timer callback runs only
\* when no promise reaction job is left
DelaySettle(c) ==
  /\ Waiting(c, {"delay"})
  /\ jobs = <<>>
  /\ Resume(c, Nothing)

\* `await this.authProvider.refresh('', accountId)`: the refresh token the default
\* 401 handler passes
PassedRefreshToken == ""

\* refresh_token: newToken.refresh_token || refreshToken
StoredRefreshToken(returned, passed) == IF returned # "" THEN returned ELSE passed

\* a settlement that resumes the first continuation registered on the promise only
HandlerResolvesFirst(e, ok, patch) ==
  /\ execs[e].state = "pending"
  /\ patch # EmptyPatch => ok /\ execs[e].handler = "user"
  /\ execs' = [execs EXCEPT ![e].state = IF ok THEN "resolved" ELSE "rejected",
                            ![e].waiters = <<>>, ![e].result = patch]
  /\ jobs' = Append(jobs, Head(execs[e].waiters))
  /\ call' = [call EXCEPT ![Head(execs[e].waiters)].settled = TRUE]
  /\ UNCHANGED <<ready, authHasRefresh, maxAttempts, hooks, hookPromises,
                 accounts, cache, cacheTime, now, token,
                 refreshToken, fetchError>>
  /\ UNCHANGED <<hooksOption, queryParamName, defaultMaxDelay, timer>>

\* the promise of handler execution e resolves with a patch or rejects: every
\* continuation waiting on it becomes a job, in the order of waiting.  The default
\* 401 handler resolves with {} when authProvider.refresh has stored a new token
HandlerResolves(e, ok, patch) ==
  /\ execs[e].state = "pending"
  /\ patch # EmptyPatch => ok /\ execs[e].handler = "user"
  /\ execs' = [execs EXCEPT ![e].state = IF ok THEN "resolved" ELSE "rejected",
                            ![e].waiters = <<>>, ![e].result = patch]
  /\ jobs' = jobs \o execs[e].waiters
  /\ call' = [c \in Calls |->
        IF \E i \in 1..Len(execs[e].waiters) : execs[e].waiters[i] = c
        THEN [call[c] EXCEPT !.settled = TRUE] ELSE call[c]]
  /\ UNCHANGED <<ready, authHasRefresh, maxAttempts, hooks, hookPromises,
                 accounts, cache, cacheTime, now>>
  /\ token' = IF ok /\ execs[e].handler = "refresh"
              THEN [token EXCEPT ![execs[e].key[1]] = @ + 1]
              ELSE token
  /\ IF ok /\ execs[e].handler = "refresh"
     THEN \* tokenService.refresh resolves with a new refresh token ("r1") or none
          \E returned \in {"", "r1"} :
            refreshToken' = [refreshToken EXCEPT ![execs[e].key[1]] =
                               StoredRefreshToken(returned, PassedRefreshToken)]
     ELSE refreshToken' = refreshToken
  /\ UNCHANGED <<hooksOption, queryParamName, defaultMaxDelay, timer, fetchError>>

\* a handler that resolves with {} or with nothing, or rejects
HandlerSettle(e, ok) == HandlerResolves(e, ok, EmptyPatch)

\* ----------------------------------------------------------- RetryManager
\* the value of NaN and of null among the numbers of getRetryAfterValue
NaN == -2
Null == -3

\* response.headers.get('Retry-After'): no response or no headers.get ("none"), no
\* such header ("absent"), a number of seconds, an HTTP-date (value: its time, in
\* ms on the clock of `now`), or text that is neither ("text")
NoHeader == [kind |-> "none", value |-> 0]
Seconds(n) == [kind |-> "seconds", value |-> n]
HttpDate(t) == [kind |-> "date", value |-> t]
RetryAfterValues ==
  {NoHeader, [kind |-> "absent", value |-> 0], [kind |-> "text", value |-> 0],
   Seconds(-5), Seconds(0), Seconds(30), Seconds(90), HttpDate(1), HttpDate(5000)}

\* parseInt(retryAfter, 10): an HTTP-date starts with the name of a day
ParseInt(header) == IF header.kind = "seconds" THEN header.value ELSE NaN

\* new Date(retryAfter).getTime()
GetTime(header) == IF header.kind = "date" THEN header.value ELSE NaN

\* RetryManager.getRetryAfterValue at time t
GetRetryAfterValue(header, t) ==
  IF header.kind \in {"none", "absent"} THEN Null
  ELSE IF ParseInt(header) # NaN THEN ParseInt(header) * 1000
  ELSE IF GetTime(header) # NaN /\ GetTime(header) > t THEN GetTime(header) - t
  ELSE Null

\* baseDelay * Math.pow(2, attempt - 1)
ExponentialDelay(attempt) == 1000 * 2^(attempt - 1)

\* the values Math.floor(Math.random() * exponentialDelay) is drawn from
Jitters == {0, 999, 1999}

\* RetryManager.defaultDelayStrategy.calculate, with the random draw jitter
DefaultDelayStrategy(attempt, header, t, jitter) ==
  LET retryAfter == GetRetryAfterValue(header, t) IN
  IF retryAfter # Null /\ retryAfter # 0 THEN retryAfter ELSE jitter

Min(a, b) == IF a < b THEN a ELSE b
Max(a, b) == IF a > b THEN a ELSE b

\* hook.delayStrategy: none, or one that always returns the same number
DelayStrategies == {Undefined, 10000}
\* hook.maxDelay
MaxDelays == {Undefined, 0, 3000}
\* statusRetries[status] when calculateAndDelay is called
Attempts == {1, 2}

\* the timer RetryManager.calculateAndDelay arms: setTimeout(resolve, finalDelay)
ArmedTimer(attempt, header, strategy, hookMaxDelay, jitter) ==
  LET maxDelay == IF hookMaxDelay # Undefined /\ hookMaxDelay # 0
                  THEN hookMaxDelay ELSE defaultMaxDelay
      calculatedDelay == IF strategy # Undefined THEN strategy
                         ELSE DefaultDelayStrategy(attempt, header, now, jitter)
      finalDelay == Min(calculatedDelay, maxDelay)
  IN
  [armed |-> TRUE, at |-> now, attempt |-> attempt, retryAfter |-> header,
   strategy |-> strategy, maxDelay |-> hookMaxDelay,
   defaultMaxDelay |-> defaultMaxDelay,
   calculated |-> calculatedDelay, delay |-> finalDelay]

\* RetryManager.calculateAndDelay up to its await, called on its own
CalculateAndDelay(attempt, header, strategy, hookMaxDelay, jitter) ==
  /\ jitter < ExponentialDelay(attempt)
  /\ timer' = ArmedTimer(attempt, header, strategy, hookMaxDelay, jitter)
  /\ UNCHANGED <<ready, authHasRefresh, maxAttempts, hooks, hookPromises, execs,
                 accounts, cache, cacheTime, now, jobs, call,
                 hooksOption, queryParamName, defaultMaxDelay, token,
                 refreshToken, fetchError>>

\* RetryManager.setDefaultMaxDelay
SetDefaultMaxDelay(maxDelay) ==
  /\ defaultMaxDelay' = maxDelay
  /\ UNCHANGED <<ready, authHasRefresh, maxAttempts, hooks, hookPromises, execs,
                 accounts, cache, cacheTime, now, jobs, call,
                 hooksOption, queryParamName, timer, token,
                 refreshToken, fetchError>>

\* ------------------------------------------------ continuations (jobs) run
Running(pcs) == jobs # <<>> /\ call[Head(jobs)].pc \in pcs

Frame ==
  UNCHANGED <<ready, authHasRefresh, maxAttempts, hooks, cacheTime, now,
              hooksOption, queryParamName, defaultMaxDelay, timer, token,
                 refreshToken, fetchError>>

\* an Authorization header kept from the previous attempt of the call
AuthorizationKept(r) == IF r.cred # Undefined THEN r.cred ELSE r.val[3]

\* the Authorization header of the attempt: headers = {...headers, ...authHeaders}
AuthorizationOf(r) == IF r.val[1] = "headers" THEN r.val[3] ELSE Undefined

\* an attempt that goes ahead without authentication headers
CredentialsIgnored(r) == FALSE

\* apiCallParams.useAuth !== false && Object.keys(authHeaders).length === 0
CredentialsMissing(r) == r.useAuth /\ r.val = CredentialsError

\* after `await this.authProvider.getAuthHeaders(accountId)`
ResumeAuth ==
  LET c == Head(jobs)  r == call[c]  IN
  /\ Running({"auth"})
  /\ IF CredentialsMissing(r)
     THEN \* Object.keys(authHeaders).length === 0: throw inside the try
          Catch(c, r, Tail(jobs), CredentialsError)
     ELSE /\ call' = [call EXCEPT ![c] =
                [r EXCEPT !.pc = "send", !.settled = FALSE, !.sent = @ + 1,
                          !.cred = AuthorizationOf(r),
                          !.params.headers = MergeAuthHeaders(@, r.val)]]
          /\ jobs' = Tail(jobs)
          /\ UNCHANGED <<hookPromises, execs, accounts>>
  /\ UNCHANGED cache /\ Frame

\* after `await this.httpClient.makeRequest(currentParams, {})`
ResumeSend ==
  LET c == Head(jobs)  r == call[c]  IN
  /\ Running({"send"})
  /\ IF ~IsError(r.val)
     THEN /\ accounts' = SetLastRequestFailed(r.accountId, FALSE)
          /\ Settle(c, r, Tail(jobs), r.val, "success")
          /\ UNCHANGED <<hookPromises, execs>>
     ELSE Catch(c, r, Tail(jobs), r.val)
  /\ UNCHANGED cache /\ Frame

\* handleRetryFailure after `await hook.onMaxRetriesExceeded(accountId, error)`:
\* it returns, or throws what the callback threw
ResumeOnMax ==
  LET c == Head(jobs)  r == call[c]  IN
  /\ Running({"onMax"})
  /\ call' = [call EXCEPT ![c] = [r EXCEPT !.pc = "retFail", !.settled = TRUE]]
  /\ jobs' = Append(Tail(jobs), c)
  /\ UNCHANGED <<hookPromises, execs, accounts, cache>> /\ Frame

\* after `await this.hookManager.handleRetryFailure(accountId, status, error)`
ResumeRetFail ==
  LET c == Head(jobs)  r == call[c]  IN
  /\ Running({"retFail"})
  /\ IF IsError(r.val)
     THEN /\ Settle(c, r, Tail(jobs), r.val, "onMaxThrew")
          /\ accounts' = accounts
     ELSE /\ accounts' = SetLastRequestFailed(r.accountId, TRUE)
          /\ Settle(c, r, Tail(jobs), r.error, "exhausted")
  /\ UNCHANGED <<hookPromises, execs, cache>> /\ Frame

\* processHook after `await this.hookPromises[hookKey]` or `await hook.handler(...)`
ResumeHook ==
  LET c == Head(jobs)  r == call[c]
      hook == GetHook(r.status)
      key == <<r.accountId, r.status>>
  IN
  /\ Running({"hook"})
  /\ IF execs[r.awaiting].state = "resolved"
     THEN /\ hookPromises' = IF hook.preventConcurrentCalls
                             THEN [hookPromises EXCEPT ![key] = 0]
                             ELSE hookPromises
          /\ call' = [call EXCEPT ![c] =
                [r EXCEPT !.pc = "retHook", !.settled = TRUE, !.val = Nothing,
                          !.hookResult = execs[r.awaiting].result]]
          /\ jobs' = Append(Tail(jobs), c)
     ELSE \* catch (hookError)
          /\ hookPromises' = hookPromises
          /\ IF hook.onHandlerError # "none"
             THEN /\ call' = [call EXCEPT ![c] =
                        [r EXCEPT !.pc = "onErr", !.settled = FALSE,
                                  !.onErrRuns = @ + 1]]
                  /\ jobs' = Tail(jobs)
             ELSE /\ call' = [call EXCEPT ![c] =
                        [r EXCEPT !.pc = "retHook", !.settled = TRUE,
                                  !.val = HandlerError(r.awaiting)]]
                  /\ jobs' = Append(Tail(jobs), c)
  /\ UNCHANGED <<execs, accounts, cache>> /\ Frame

\* processHook after `await hook.onHandlerError(accountId, hookError)`:
\* throw hookError, unless the callback threw
ResumeOnErr ==
  LET c == Head(jobs)  r == call[c]  IN
  /\ Running({"onErr"})
  /\ call' = [call EXCEPT ![c] =
        [r EXCEPT !.pc = "retHook", !.settled = TRUE,
                  !.val = IF IsError(r.val) THEN r.val ELSE HandlerError(r.awaiting)]]
  /\ jobs' = Append(Tail(jobs), c)
  /\ UNCHANGED <<hookPromises, execs, accounts, cache>> /\ Frame

\* a retry loop that never waits
UseRetryDelayIgnored(hook) == FALSE

\* if (activeHook?.useRetryDelay)
UseRetryDelay(hook) == hook.useRetryDelay

\* the per-call attempt count in place of the retry count of the status
RetryNumberOfCall(r) == r.attempts

\* attempt: statusRetries[status]
RetryNumber(r) == r.statusRetries[r.status]

\* after `await this.hookManager.processHook(accountId, status, error)`: the
\* rejection, or the backoff wait (header: the Retry-After of error.response,
\* jitter: the draw of Math.random; the hooks set no delayStrategy and no maxDelay),
\* or the next iteration
ResumeRetHook(header, jitter) ==
  LET c == Head(jobs)  r0 == call[c]
      r == [r0 EXCEPT !.params = MergePatch(@, r0.hookResult)]
  IN
  /\ Running({"retHook"})
  /\ IF IsError(r.val)
     THEN /\ accounts' = SetLastRequestFailed(r.accountId, TRUE)
          /\ Settle(c, r0, Tail(jobs), r.val, "handlerFailed")
          /\ timer' = timer
     ELSE IF UseRetryDelay(GetHook(r.status))
     THEN /\ jitter < ExponentialDelay(RetryNumber(r))
          /\ timer' = ArmedTimer(RetryNumber(r), header, Undefined, Undefined, jitter)
          /\ call' = [call EXCEPT ![c] =
                [r EXCEPT !.pc = "delay", !.settled = FALSE, !.delays = @ + 1]]
          /\ jobs' = Tail(jobs)
          /\ accounts' = accounts
     ELSE /\ LoopTop(c, r, Tail(jobs))
          /\ timer' = timer
  /\ UNCHANGED <<hookPromises, execs, cache>>
  /\ UNCHANGED <<ready, authHasRefresh, maxAttempts, hooks, cacheTime, now,
                 hooksOption, queryParamName, defaultMaxDelay, token,
                 refreshToken, fetchError>>

\* after `await this.retryManager.calculateAndDelay(...)`
ResumeDelay ==
  LET c == Head(jobs)  r == call[c]  IN
  /\ Running({"delay"})
  /\ LoopTop(c, r, Tail(jobs))
  /\ UNCHANGED <<hookPromises, execs, cache>> /\ Frame

\* call() after `await this.makeRequestWithRetry(params)`: saveToCache and return,
\* or reject
ResumeRet ==
  LET c == Head(jobs)  r == call[c]  IN
  /\ Running({"ret"})
  /\ cache' = IF IsError(r.result) THEN cache ELSE SaveToCache(r, r.result[2])
  /\ call' = [call EXCEPT ![c].pc = "done"]
  /\ jobs' = Tail(jobs)
  /\ UNCHANGED <<hookPromises, execs, accounts>> /\ Frame

\* ------------------------------------------------------------ specification
CacheTimes == {0}
AttemptLimits == {2}

\* the first call is made for 'default': the accounts are interchangeable
AccountsOf(c) == IF c = 1 THEN {"default"} ELSE Accounts

Step(CS) ==
  \/ \E su \in Setups, ct \in CacheTimes : Setup(su.authRefresh, su.hooks, ct, FALSE)
  \/ \E n \in AttemptLimits : SetMaxAttempts(n)
  \/ \E c \in CS : \E a \in AccountsOf(c), ua \in BOOLEAN, rq \in Requests :
        StartCall(c, a, ua, rq)
  \/ \E c \in Calls, empty \in BOOLEAN : AuthSettle(c, empty)
  \/ \E c \in Calls, d \in Data : TransportOk(c, d)
  \/ \E c \in Calls, s \in Statuses \cup {NoStatus} : TransportFail(c, s)
  \/ \E c \in Calls, throws \in BOOLEAN : CallbackSettle(c, throws)
  \/ \E c \in Calls : DelaySettle(c)
  \/ \E e \in Calls, ok \in BOOLEAN : HandlerSettle(e, ok)
  \/ ResumeAuth
  \/ ResumeSend
  \/ ResumeOnMax
  \/ ResumeRetFail
  \/ ResumeHook
  \/ ResumeOnErr
  \/ ResumeRetHook(NoHeader, 0)
  \/ ResumeDelay
  \/ ResumeRet

Next == Step(1..MaxCalls)

Spec == Init /\ [][Next]_vars

\* two logical calls
TwoCalls == {1, 2}
NextTwo == Step(TwoCalls)
SpecTwo == Init /\ [][NextTwo]_vars

\* every promise settles and every job runs
Fairness ==
  /\ WF_vars(\E c \in Calls, empty \in BOOLEAN : AuthSettle(c, empty))
  /\ WF_vars(\E c \in Calls, d \in Data : TransportOk(c, d))
  /\ WF_vars(\E c \in Calls, throws \in BOOLEAN : CallbackSettle(c, throws))
  /\ WF_vars(\E c \in Calls : DelaySettle(c))
  /\ WF_vars(\E e \in Calls, ok \in BOOLEAN : HandlerSettle(e, ok))
  /\ WF_vars(ResumeAuth \/ ResumeSend \/ ResumeOnMax \/ ResumeRetFail \/ ResumeHook
             \/ ResumeOnErr \/ ResumeRetHook(NoHeader, 0) \/ ResumeDelay \/ ResumeRet)
FairSpec == Spec /\ Fairness

\* three concurrent calls for one account fail with 429 under a hook with
\* preventConcurrentCalls
RaceHooks == [NoHooks EXCEPT ![429] = RateLimitHook]
NextRace ==
  \/ Setup(FALSE, RaceHooks, 0, FALSE)
  \/ \E c \in Calls : StartCall(c, "default", FALSE, DefaultRequest)
  \/ \E c \in Calls : TransportFail(c, 429)
  \/ \E e \in Calls : HandlerSettle(e, TRUE)
  \/ \E c \in Calls : CallbackSettle(c, FALSE)
  \/ ResumeSend
  \/ ResumeOnMax
  \/ ResumeRetFail
  \/ ResumeHook
  \/ ResumeRetHook(NoHeader, 0)
  \/ ResumeRet
SpecRace == Init /\ [][NextRace]_vars

\* ------------------------------------------------------ the response cache
\* how far the clock runs
MaxNow == 2

\* Date.now() advances
Tick ==
  /\ now < MaxNow
  /\ now' = now + 1
  /\ UNCHANGED <<ready, authHasRefresh, maxAttempts, hooks, hookPromises, execs,
                 accounts, cache, cacheTime, jobs, call>>
  /\ UNCHANGED Rest

\* what handleResponse can return: a falsy value (0, '', false, null) or a truthy one
CacheData == {0, 1}
\* the service default time-to-live and the per-call overrides, in clock ticks
ServiceCacheTime == 2
CacheTimeOverrides == {Undefined, 1}
\* a hook that retries 429 zero times: the first 429 exhausts the retries
ExhaustHook == Hook(TRUE, FALSE, FALSE, 0, "none", "none", "none")
CacheHooks == [NoHooks EXCEPT ![429] = ExhaustHook]
\* the requests differ in their query parameters and in their cacheTime only
CacheRequests ==
  {ApiCallParams("GET /a", qp, ct) :
     qp \in QueryParams \ {NoQueryParams}, ct \in CacheTimeOverrides}

\* calls without authentication against a service that caches responses
NextCache ==
  \/ Setup(FALSE, CacheHooks, ServiceCacheTime, FALSE)
  \/ \E c \in Calls, rq \in CacheRequests : StartCall(c, "default", FALSE, rq)
  \/ \E c \in Calls, d \in CacheData : TransportOk(c, d)
  \/ \E c \in Calls : TransportFail(c, 429)
  \/ Tick
  \/ ResumeSend
  \/ ResumeRetFail
  \/ ResumeRet
SpecCache == Init /\ [][NextCache]_vars

\* ------------------------------------------------- the RetryManager alone
DefaultMaxDelays == {5000, 0}

\* the RetryManager on its own: delays are computed while the clock advances
NextDelay ==
  \/ \E m \in DefaultMaxDelays : SetDefaultMaxDelay(m)
  \/ \E attempt \in Attempts, header \in RetryAfterValues, strategy \in DelayStrategies,
        hookMaxDelay \in MaxDelays, jitter \in Jitters :
        CalculateAndDelay(attempt, header, strategy, hookMaxDelay, jitter)
  \/ Tick
SpecDelay == Init /\ [][NextDelay]_vars

\* ----------------------------------------------------- ApiKeyAuthProvider
ApiKeyRequests == {ApiCallParams("GET /a", qp, Undefined) : qp \in QueryParams}

\* a service set up with new ApiKeyAuthProvider({apiKey, queryParamName}), no hooks
\* and no caching
NextApiKey ==
  \/ Setup(FALSE, NoHooks, 0, TRUE)
  \/ \E c \in Calls : \E a \in AccountsOf(c), ua \in BOOLEAN, rq \in ApiKeyRequests :
        StartCall(c, a, ua, rq)
  \/ \E c \in Calls : AuthSettle(c, TRUE)
  \/ \E c \in Calls, d \in Data : TransportOk(c, d)
  \/ \E c \in Calls, s \in Statuses : TransportFail(c, s)
  \/ ResumeAuth
  \/ ResumeSend
  \/ ResumeRet
SpecApiKey == Init /\ [][NextApiKey]_vars

\* ---------------------------------------------------------- retry counters
\* two calls without authentication whose attempts fail with either status, under
\* hooks without handler: one retry for 401, two for 429
NextCounters ==
  \/ Setup(FALSE,
           [NoHooks EXCEPT
              ![401] = Hook(TRUE, FALSE, FALSE, 1, "none", "none", "none"),
              ![429] = Hook(TRUE, FALSE, FALSE, 2, "none", "none", "none")],
           0, FALSE)
  \/ \E c \in TwoCalls : \E a \in AccountsOf(c) :
        StartCall(c, a, FALSE, DefaultRequest)
  \/ \E c \in Calls, d \in Data : TransportOk(c, d)
  \/ \E c \in Calls, s \in Statuses : TransportFail(c, s)
  \/ ResumeSend
  \/ ResumeRetFail
  \/ ResumeRetHook(NoHeader, 0)
  \/ ResumeRet
SpecCounters == Init /\ [][NextCounters]_vars

\* ------------------------------------------------------- the default account
\* two calls against a caching service with a 429 hook that has
\* preventConcurrentCalls, made with or without an accountId
NextDefault ==
  \/ Setup(FALSE, RaceHooks, ServiceCacheTime, FALSE)
  \/ \E c \in TwoCalls, a \in {NoAccountId} \cup Accounts :
        StartCall(c, a, FALSE, DefaultRequest)
  \/ \E c \in Calls, d \in Data : TransportOk(c, d)
  \/ \E c \in Calls : TransportFail(c, 429)
  \/ \E e \in Calls : HandlerSettle(e, TRUE)
  \/ \E c \in Calls : CallbackSettle(c, FALSE)
  \/ ResumeSend
  \/ ResumeOnMax
  \/ ResumeRetFail
  \/ ResumeHook
  \/ ResumeRetHook(NoHeader, 0)
  \/ ResumeRet
SpecDefault == Init /\ [][NextDefault]_vars

\* ------------------------------------------------------------ cancellation
\* the caller aborts the AbortSignal it passed with the call
Cancel(c) ==
  /\ call[c].pc \notin {"idle", "done"}
  /\ ~call[c].cancelled
  /\ call' = [call EXCEPT ![c].cancelled = TRUE]
  /\ UNCHANGED <<ready, authHasRefresh, maxAttempts, hooks, hookPromises, execs,
                 accounts, cache, cacheTime, now, jobs>>
  /\ UNCHANGED Rest

\* two calls under a 429 hook with a handler and a backoff wait; the caller may
\* abort the signal of a call in flight
NextCancel ==
  \/ Setup(FALSE, [NoHooks EXCEPT ![429] = BackoffHook], 0, FALSE)
  \/ \E n \in AttemptLimits : SetMaxAttempts(n)
  \/ \E c \in TwoCalls : StartCall(c, "default", FALSE, DefaultRequest)
  \/ \E c \in Calls : Cancel(c)
  \/ \E c \in Calls, d \in Data : TransportOk(c, d)
  \/ \E c \in Calls, s \in {429, NoStatus} : TransportFail(c, s)
  \/ \E e \in Calls, ok \in BOOLEAN : HandlerSettle(e, ok)
  \/ \E c \in Calls : DelaySettle(c)
  \/ ResumeSend
  \/ ResumeRetFail
  \/ ResumeHook
  \/ ResumeRetHook(NoHeader, 0)
  \/ ResumeDelay
  \/ ResumeRet
SpecCancel == Init /\ [][NextCancel]_vars

\* ---------------------------------------------------------- backoff waits
\* a call whose attempts fail with either status, with any Retry-After and any
\* random draw, under hooks with useRetryDelay and without handler: one retry for
\* 401, two for 429
NextBackoff ==
  \/ Setup(FALSE,
           [NoHooks EXCEPT
              ![401] = Hook(TRUE, TRUE, FALSE, 1, "none", "none", "none"),
              ![429] = Hook(TRUE, TRUE, FALSE, 2, "none", "none", "none")],
           0, FALSE)
  \/ StartCall(1, "default", FALSE, DefaultRequest)
  \/ \E d \in Data : TransportOk(1, d)
  \/ \E s \in Statuses : TransportFail(1, s)
  \/ DelaySettle(1)
  \/ ResumeSend
  \/ ResumeRetFail
  \/ \E header \in RetryAfterValues, jitter \in Jitters : ResumeRetHook(header, jitter)
  \/ ResumeDelay
  \/ ResumeRet
SpecBackoff == Init /\ [][NextBackoff]_vars

\* ------------------------------------------------------------ properties
\* the hook of a key has preventConcurrentCalls
Prevent(key) ==
  GetHook(key[2]).kind = "hook" /\ GetHook(key[2]).preventConcurrentCalls

KeyOf(c) == <<call[c].accountId, call[c].status>>

\* the handler executions in flight for a key
InFlight(key) ==
  {e \in Calls : execs[e].state = "pending" /\ execs[e].key = key}

\* the call is in processHook, at the await of a handler promise
InRecovery(c) == call[c].pc = "hook"

\* C1: under a hook with preventConcurrentCalls, when two calls of one account
\* are in recovery for the same status and the handler execution either of them
\* awaits is still in flight, both await that one execution, exactly one of them
\* has called the handler, no other execution for the key is in flight, and
\* neither is resumed (so neither starts its next attempt) while it is pending;
\* a call in recovery is resumed only with the settled execution it awaits.
C1_SharedRecovery ==
  /\ \A c \in TwoCalls, d \in TwoCalls :
       ( /\ c # d
         /\ InRecovery(c) /\ InRecovery(d)
         /\ KeyOf(c) = KeyOf(d) /\ Prevent(KeyOf(c))
         /\ execs[call[c].awaiting].state = "pending" )
       => /\ call[d].awaiting = call[c].awaiting
          /\ call[c].joined # call[d].joined
          /\ InFlight(KeyOf(c)) = {call[c].awaiting}
          /\ ~call[c].settled /\ ~call[d].settled
          /\ call[c].sent = call[c].recoveries /\ call[d].sent = call[d].recoveries
  /\ \A c \in TwoCalls :
       InRecovery(c) /\ call[c].settled => execs[call[c].awaiting].state # "pending"

\* C1 witness: both calls have been resumed by the one resolved execution that the
\* second of them joined while it was in flight
C1_Witness ==
  /\ InRecovery(1) /\ InRecovery(2)
  /\ KeyOf(1) = KeyOf(2) /\ Prevent(KeyOf(1))
  /\ call[1].awaiting = 1 /\ call[2].awaiting = 1
  /\ ~call[1].joined /\ call[2].joined /\ call[2].joinState = "pending"
  /\ execs[1].state = "resolved"
  /\ call[1].settled /\ call[2].settled
  /\ call[1].handlerRuns = 1 /\ call[2].handlerRuns = 0

\* C2: for a hook with preventConcurrentCalls at most one handler execution is in
\* flight per (accountId, status), whatever the number of calls
C2_AtMostOneInFlight ==
  \A key \in Keys : Prevent(key) => Cardinality(InFlight(key)) <= 1

\* C3: a recovery never awaits a stored promise that had settled and whose first
\* caller had already resumed when the recovery began: the entry of a settled
\* execution is gone by then and the handler is called afresh
C3_FreshAfterSettle ==
  \A c \in Calls : call[c].joined => call[c].joinState # "stale"

\* a hook is configured for the status
Hooked(status) == GetHook(status).kind = "hook"

\* the call has rejected or resolved (the promise of makeRequestWithRetry settled)
Ended(c) == call[c].pc \in {"ret", "done"}

\* the last error the call caught is the failure of a physical attempt
CaughtFailure(c) == call[c].error[1] = "http"

\* C4: when every physical attempt of a call failed with one retrying status,
\* every handler execution resolved, credentials were there and maxRetries + 1 is
\* within maxAttempts, the call has made exactly maxRetries + 1 attempts, has
\* called onMaxRetriesExceeded once and rejects with the error of the last attempt
C4_Original ==
  \A c \in Calls, s \in Statuses :
    ( /\ call[c].pc = "done" /\ ShouldRetry(s)
      /\ call[c].sent > 0 /\ call[c].statusRetries[s] = call[c].sent
      /\ call[c].exit \notin {"nocreds", "handlerFailed"}
      /\ MaxRetries(s) + 1 <= maxAttempts )
    => /\ call[c].sent = MaxRetries(s) + 1
       /\ call[c].attempts = call[c].sent
       /\ call[c].onMaxRuns = (IF GetHook(s).onMaxRetriesExceeded = "none" THEN 0 ELSE 1)
       /\ call[c].result = AttemptError(s, call[c].sent)

\* C5: a call that catches the failure of an attempt whose status has no hook, or
\* that has no status, rejects at once with that error: the failed attempt is its
\* last, no recovery, callback or delay follows it, and when it was the first
\* failure the call made exactly one attempt
C5_NoHookPropagates ==
  \A c \in Calls :
    CaughtFailure(c) /\ ~Hooked(call[c].status)
    => /\ Ended(c) /\ call[c].exit = "noretry"
       /\ call[c].result = call[c].error
       /\ call[c].error = AttemptError(call[c].status, call[c].sent)
       /\ call[c].sent = call[c].recoveries + 1
       /\ call[c].delays <= call[c].recoveries
       /\ call[c].recoveries = 0
            => /\ call[c].sent = 1 /\ call[c].attempts = 1
               /\ call[c].handlerRuns = 0 /\ call[c].delays = 0
               /\ call[c].onMaxRuns = 0 /\ call[c].onErrRuns = 0

\* C5 witness: one call rejected with a network failure and another with a status
\* that has no hook, each after one attempt
C5_Witness ==
  \E c \in Calls, d \in Calls :
    /\ call[c].pc = "done" /\ call[c].result = AttemptError(NoStatus, 1)
    /\ call[d].pc = "done" /\ call[d].result = AttemptError(429, 1)
    /\ ~Hooked(429)

C7_Original ==
  [][\A c \in Calls :
       ~Ended(c) /\ call'[c].pc = "ret"
       => IF IsError(call'[c].result)
          THEN DidLastRequestFail(call[c].accountId)'
          ELSE accounts'[call[c].accountId] = "false"]_vars

\* C8: a call that has run onMaxRetriesExceeded rejects with the error of the
\* failed attempt, one that has run onHandlerError rejects with the rejection of
\* the handler, and in both cases the account is marked failed at that time
C8_Original ==
  [][\A c \in Calls :
       ~Ended(c) /\ call'[c].pc = "ret"
       => /\ call[c].onMaxRuns > 0
               => /\ call'[c].result = call[c].error
                  /\ DidLastRequestFail(call[c].accountId)'
          /\ call[c].onErrRuns > 0
               => /\ call'[c].result = HandlerError(call[c].awaiting)
                  /\ DidLastRequestFail(call[c].accountId)']_vars

\* C9: a call never makes more than maxAttempts physical attempts; it leaves the
\* loop by the ceiling only after maxAttempts iterations, rejecting with the
\* 'Exceeded maximum attempts' error and marking the account failed at that time;
\* and when every promise it awaits settles, every call that started ends (again
\* and again all calls are either not started or done, and a call that is done
\* stays done)
C9_BoundedAndTerminates ==
  /\ [](\A c \in Calls :
          /\ call[c].sent <= call[c].attempts
          /\ call[c].attempts <= maxAttempts
          /\ call[c].exit = "exceeded"
               => /\ Ended(c)
                  /\ call[c].result = ExceededError
                  /\ call[c].attempts = maxAttempts)
  /\ [][\A c \in Calls :
          call[c].exit # "exceeded" /\ call'[c].exit = "exceeded"
          => DidLastRequestFail(call[c].accountId)']_vars
  /\ []<>(\A c \in Calls : call[c].pc \in {"idle", "done"})

\* C9 witness: with maxAttempts lowered to 2 a call whose two attempts were both
\* recovered has rejected with the 'Exceeded maximum attempts' error
C9_Witness ==
  \E c \in Calls :
    /\ maxAttempts = 2
    /\ call[c].pc = "done" /\ call[c].exit = "exceeded"
    /\ call[c].result = ExceededError
    /\ call[c].sent = 2 /\ call[c].recoveries = 2

\* the default auth refresh hook is the hook of 401
DefaultRefresh == hooks[401] = CreateDefaultAuthRefreshHandler

\* the calls of authProvider.refresh that serve the recovery of a call: the one it
\* made, or the one it found in progress; none when it was handed the stored
\* result of an earlier one
RefreshCalls(c) ==
  IF call[c].joined
  THEN (IF call[c].joinState = "stale" THEN 0 ELSE 1)
  ELSE call[c].handlerRuns

\* C10: under the default auth refresh hook a call that has caught a 401 goes
\* through one recovery served by exactly one refresh call and makes at most one
\* more attempt; when that one fails with 401 too the call makes no further
\* recovery and rejects with the error of its second attempt
C10_Original ==
  \A c \in Calls :
    DefaultRefresh /\ call[c].statusRetries[401] >= 1
    => /\ call[c].recoveries = 1
       /\ RefreshCalls(c) = 1
       /\ call[c].sent <= 2
       /\ call[c].statusRetries[401] <= 2
       /\ call[c].statusRetries[401] = 2
            => /\ call[c].sent = 2
               /\ call[c].pc \in {"onMax", "retFail", "ret", "done"}
               /\ Ended(c) => /\ call[c].exit = "exhausted"
                               /\ call[c].result = AttemptError(401, 2)

\* a call that catches a failure with the status rejects at once with that error,
\* without a retry counted or a handler execution for the status
Propagates(status) ==
  /\ \A c \in Calls :
       /\ call[c].statusRetries[status] = 0
       /\ CaughtFailure(c) /\ call[c].status = status
            => /\ Ended(c) /\ call[c].exit = "noretry"
               /\ call[c].result = call[c].error
               /\ call[c].error = AttemptError(status, call[c].sent)
               /\ call[c].sent = call[c].recoveries + 1
  /\ \A e \in Calls : execs[e].state # "none" => execs[e].key[2] # status

Starts(c) == call[c].pc = "idle" /\ call'[c].pc # "idle"

\* the cache entry under the key of call r
EntryOf(r) == cache[GetRequestKey(r)]

\* the entry is inside the time-to-live of call r
Live(r) ==
  /\ EntryOf(r).timestamp # Undefined
  /\ now - EntryOf(r).timestamp < CurrentCacheTime(r)

\* what identifies a call for caching: (accountId, (method, route, base, body),
\* queryParams) as the caller gave them
Identity(r) == <<r.accountId, r.request.route, r.request.queryParams>>

\* C13: cache round trip.  For every value a successful attempt can return, falsy
\* ones included, a call whose (accountId, method, route, base, queryParams, body)
\* is the one of the call that stored the entry returns the stored value without
\* invoking the transport when it is made while now - storedAt < ttl, and invokes
\* the transport again when now - storedAt >= ttl; ttl is the call's cacheTime
\* when given, else the service default.
C13_Original ==
  [][\A c \in Calls :
       LET r == call'[c] IN
       /\ Starts(c)
       /\ EntryOf(r).timestamp # Undefined
       /\ EntryOf(r).params = Identity(r)
       => IF Live(r)
          THEN /\ r.pc = "done" /\ r.exit = "cache"
               /\ r.result = Response(EntryOf(r).data)
               /\ r.sent = 0
          ELSE r.pc = "send" /\ r.sent = 1]_vars

\* C14: a call answered from a live cache entry makes no physical attempt, consults
\* neither the auth provider nor the hooks, runs no handler and no delay, leaves the
\* account state, the stored promises, the cache and the job queue as they were, and
\* has returned: nothing of it runs later.
C14_CacheHitFrame ==
  [][\A c \in Calls :
       /\ Starts(c) /\ call'[c].exit = "cache"
          => /\ Live(call'[c])
             /\ call'[c].pc = "done"
             /\ call'[c].result = Response(EntryOf(call'[c]).data)
             /\ call'[c].sent = 0 /\ call'[c].attempts = 0
             /\ call'[c].recoveries = 0 /\ call'[c].handlerRuns = 0
             /\ call'[c].delays = 0 /\ call'[c].error = Nothing
             /\ UNCHANGED <<accounts, hooks, hookPromises, execs, jobs, cache>>
       /\ call[c].exit = "cache" => call'[c] = call[c]]_vars

\* a call was answered from the cache while its account's last request had failed
C14_Witness ==
  \E c \in Calls :
    /\ call[c].pc = "done" /\ call[c].exit = "cache"
    /\ call[c].sent = 0
    /\ DidLastRequestFail(call[c].accountId)

\* C15: cache identity is the full tuple (accountId, method, route, base,
\* queryParams, body): a call is served from the cache only with a value stored by a
\* call with the identical tuple, so calls that differ only in their query
\* parameters never receive each other's cached response.
C15_Original ==
  [][\A c \in Calls :
       Starts(c) /\ call'[c].exit = "cache"
       => EntryOf(call'[c]).params = Identity(call'[c])]_vars

\* the maximum delay in force for the armed timer: the hook's maxDelay when set,
\* otherwise the service-wide default
EffectiveMaxDelay ==
  IF timer.maxDelay # Undefined THEN timer.maxDelay ELSE timer.defaultMaxDelay

\* C16: for every delay d computed by the effective delay strategy (the hook's
\* delayStrategy, else the default), the actual suspension is min(d,
\* effectiveMaxDelay), where effectiveMaxDelay is the hook's maxDelay when set and
\* otherwise the service-wide default max delay.
C16_Original ==
  timer.armed =>
    /\ timer.strategy # Undefined => timer.calculated = timer.strategy
    /\ timer.delay = Min(timer.calculated, EffectiveMaxDelay)

\* C17: for the default delay strategy, a Retry-After value that parses as a
\* number of seconds n >= 0 (0 included) gives a computed delay of exactly n * 1000
\* ms, whatever the random draw and the attempt number.
C17_Original ==
  timer.armed /\ timer.strategy = Undefined /\ timer.retryAfter.kind = "seconds"
    => timer.calculated = timer.retryAfter.value * 1000

\* C18: for the default delay strategy, a Retry-After value that is a date is an
\* absolute deadline and gives max(0, deadline - now): deadline - now for a future
\* deadline, 0 for a deadline that is not after now, never the jittered
\* exponential backoff.
C18_Original ==
  timer.armed /\ timer.strategy = Undefined /\ timer.retryAfter.kind = "date"
    => timer.calculated = Max(0, timer.retryAfter.value - timer.at)

C20_Original ==
  \A c \in Calls :
    queryParamName /\ call[c].useAuth /\ Ended(c)
      => /\ call[c].sent >= 1
         /\ call[c].queryParams = WithApiKey(call[c].request.queryParams)

\* C21: when the recovery handler a call awaits rejects, onHandlerError is invoked
\* if the hook has one, the call rejects with the handler's rejection, no further
\* physical attempt or delay happens for the call, and the account is marked
\* failed at that time.
C21_Original ==
  [][\A c \in Calls :
       ~Ended(c) /\ call'[c].pc = "ret" /\ call'[c].exit = "handlerFailed"
       => /\ execs[call[c].awaiting].state = "rejected"
          /\ GetHook(call[c].status).onHandlerError # "none" => call[c].onErrRuns = 1
          /\ call'[c].result = HandlerError(call[c].awaiting)
          /\ call'[c].sent = call[c].sent /\ call'[c].delays = call[c].delays
          /\ call[c].sent = call[c].recoveries
          /\ DidLastRequestFail(call[c].accountId)']_vars

\* C22: within one call physical attempts are strictly sequential.  An iteration
\* after the first begins only when the attempt of the previous one was sent, has
\* failed and was caught, its recovery has returned and, under useRetryDelay, its
\* backoff timer has fired; a call leaves the await of a handler execution (its own
\* or a stored one) only when that execution has settled; and an attempt is sent
\* only when the call has none in flight.
C22_Sequential ==
  [][\A c \in Calls :
       /\ call'[c].attempts = call[c].attempts + 1 /\ call[c].attempts >= 1
            => /\ call[c].sent = call[c].attempts
               /\ call[c].error = AttemptError(call[c].status, call[c].sent)
               /\ call[c].recoveries = call[c].attempts
               /\ call[c].settled /\ ~IsError(call[c].val)
               /\ IF GetHook(call[c].status).useRetryDelay
                  THEN call[c].pc = "delay" /\ call[c].delays >= 1
                  ELSE call[c].pc = "retHook"
       /\ call[c].pc = "hook" /\ call'[c].pc # "hook"
            => execs[call[c].awaiting].state \in {"resolved", "rejected"}
       /\ call'[c].sent # call[c].sent
            => /\ call'[c].sent = call[c].sent + 1
               /\ call'[c].sent = call'[c].attempts
               /\ call[c].pc # "send"
               /\ call'[c].pc = "send" /\ ~call'[c].settled]_vars

\* the second attempt of a call is in flight after a handler execution and a
\* backoff wait
C22_Witness ==
  \E c \in Calls :
    /\ call[c].pc = "send" /\ ~call[c].settled /\ call[c].sent = 2
    /\ call[c].handlerRuns = 1 /\ call[c].delays = 1
    /\ GetHook(call[c].status).useRetryDelay

\* C25: retry counters are scoped per call and per status.  Every call starts with
\* all counters at zero; a counter of a call changes only when that call catches
\* the failure of its own attempt, by one and for the status of that failure only;
\* and a call runs out of retries for a status only by its own maxRetries + 1
\* failures with that status.
C25_CountersPerCall ==
  [][\A c \in Calls :
       /\ Starts(c) => \A s \in Statuses : call'[c].statusRetries[s] = 0
       /\ \A s \in Statuses :
            call'[c].statusRetries[s] # call[c].statusRetries[s]
            => /\ Running({"send"}) /\ Head(jobs) = c
               /\ call[c].val = AttemptError(s, call[c].sent)
               /\ call'[c].statusRetries[s] = call[c].statusRetries[s] + 1
               /\ \A t \in Statuses \ {s} :
                    call'[c].statusRetries[t] = call[c].statusRetries[t]
               /\ IF call'[c].statusRetries[s] > MaxRetries(s)
                  THEN call'[c].pc \in {"onMax", "retFail"}
                  ELSE call'[c].pc \in {"hook", "retHook"}
       /\ call'[c].pc \in {"onMax", "retFail"} /\ call[c].pc = "send"
            => call'[c].statusRetries[call'[c].status]
                 = MaxRetries(call'[c].status) + 1]_vars

\* one call has used up its 401 budget and two retries of 429 and is in its fourth
\* attempt, while a later call for the same account is in its first retry
C25_Witness ==
  \E c \in Calls, d \in Calls :
    /\ c # d /\ call[c].accountId = call[d].accountId
    /\ call[c].statusRetries[401] = 1 /\ call[c].statusRetries[429] = 2
    /\ call[c].pc = "send" /\ call[c].sent = 4
    /\ call[d].statusRetries[401] = 0 /\ call[d].statusRetries[429] = 1
    /\ call[d].pc = "send" /\ call[d].sent = 2

\* C30: a call that is still in progress (failed attempts being recovered, handler
\* executions, callbacks, backoff waits) does not modify the account state record:
\* the record of an account changes only in the step in which a call for that
\* account reaches its outcome, the resolution or rejection of makeRequestWithRetry.
C30_AccountChangesAtEnd ==
  [][\A a \in Accounts :
       accounts'[a] # accounts[a]
       => \E c \in Calls :
            /\ call[c].accountId = a
            /\ call[c].pc \notin {"idle", "ret", "done"}
            /\ call'[c].pc = "ret"
            /\ \A d \in Calls \ {c} : call'[d] = call[d]]_vars

\* a call is in its second attempt after a handler execution and a backoff wait,
\* and the record of its account has never been written
C30_Witness ==
  \E c \in Calls :
    /\ call[c].pc = "send" /\ call[c].sent = 2
    /\ call[c].handlerRuns = 1 /\ call[c].delays = 1
    /\ accounts[call[c].accountId] = "undefined"

\* the call was made without an accountId, or with accountId 'default'
DefaultGiven(c) == call[c].pc # "idle" /\ call[c].given \in {NoAccountId, "default"}

\* calls made without an accountId or with 'default' run under account 'default'
\* and agree on the cache key of a request and on the recovery dedup key of a status
DefaultKeys ==
  \A c \in Calls :
    DefaultGiven(c)
    => /\ call[c].accountId = "default"
       /\ GetRequestKey(call[c])[1] = "default"
       /\ KeyOf(c)[1] = "default"
       /\ execs[c].state # "none" => execs[c].key[1] = "default"
       /\ \A d \in Calls :
            DefaultGiven(d)
            => /\ call[d].request = call[c].request
                 => GetRequestKey(call[d]) = GetRequestKey(call[c])
               /\ call[d].status = call[c].status => KeyOf(d) = KeyOf(c)

\* C24: a call made without an accountId behaves like the same call made with
\* accountId 'default': both run under account 'default', so they use the same
\* cache key for the same request and the same recovery dedup key, the only
\* account state record either of them writes is the one of 'default', and what
\* they store in the cache and among the stored handler promises is filed under
\* 'default'.
C24_DefaultAccount ==
  [][/\ DefaultKeys'
     /\ \A c \in Calls :
          DefaultGiven(c)' /\ call'[c] # call[c]
          => /\ \A a \in Accounts \ {"default"} : accounts'[a] = accounts[a]
             /\ \A k \in CacheKeys : cache'[k] # cache[k] => k[1] = "default"
             /\ \A k \in Keys : hookPromises'[k] # hookPromises[k] => k[1] = "default"
             /\ call'[c].pc = "ret" /\ call[c].pc # "ret"
                  => accounts'["default"] =
                       (IF call'[c].exit = "success" THEN "false" ELSE "true")
             /\ call'[c].pc = "done" /\ call'[c].exit = "success"
                  => /\ cache'[GetRequestKey(call'[c])].timestamp = now
                     /\ cache'[GetRequestKey(call'[c])].params[1] = "default"]_vars

\* a call made with accountId 'default' awaits the handler execution started by a
\* call made without an accountId
C24_Witness ==
  \E c \in Calls, d \in Calls :
    /\ call[c].given = NoAccountId /\ call[d].given = "default"
    /\ call[c].pc = "hook" /\ call[d].pc = "hook"
    /\ call[c].awaiting = c /\ call[d].awaiting = c /\ call[d].joined
    /\ call[d].handlerRuns = 0
    /\ execs[c].state = "pending"

\* C23: once the cancellation signal of a call has been triggered, no further
\* physical attempt, recovery handler or backoff wait is started for the call, and
\* a backoff wait in progress ends with the rejection of the call, not with the
\* next iteration of the loop.
C23_Original ==
  [][\A c \in Calls :
       call[c].cancelled
       => /\ call'[c].sent = call[c].sent
          /\ call'[c].handlerRuns = call[c].handlerRuns
          /\ call'[c].delays = call[c].delays
          /\ call[c].pc = "delay" /\ call'[c].pc # "delay"
               => call'[c].pc = "ret" /\ IsError(call'[c].result)]_vars

\* the Retry-After of the response gives the default strategy no delay
NoRetryAfterSignal(header) == header.kind \in {"none", "absent"}

\* C26: when a call begins a backoff wait, the retry number given to the delay
\* strategy is the number of failures with the current status the call has caught
\* so far (1 for the first retry of that status, whatever other statuses the call
\* has retried), and with the default strategy and no Retry-After the computed delay
\* is an integer in [0, 1000 * 2^(n-1)).
C26_BackoffRange ==
  [][\A c \in Calls :
       call[c].pc = "retHook" /\ call'[c].pc = "delay"
       => /\ timer'.armed /\ timer'.at = now
          /\ timer'.attempt = call[c].statusRetries[call[c].status]
          /\ timer'.attempt >= 1
          /\ timer'.attempt <= call[c].sent
          /\ timer'.strategy = Undefined /\ NoRetryAfterSignal(timer'.retryAfter)
               => /\ timer'.calculated \in Nat
                  /\ timer'.calculated < 1000 * 2^(timer'.attempt - 1)]_vars

\* the third attempt of a call failed with 429 after a 401 and a 429: it waits for
\* its second retry of 429, with a delay in the upper half of [0, 2000)
C26_Witness ==
  \E c \in Calls :
    /\ call[c].pc = "delay" /\ call[c].sent = 3 /\ call[c].status = 429
    /\ call[c].statusRetries[401] = 1 /\ call[c].statusRetries[429] = 2
    /\ timer.armed /\ timer.attempt = 2 /\ NoRetryAfterSignal(timer.retryAfter)
    /\ timer.calculated = 1999 /\ timer.delay = 1999

\* C27: the duration of every backoff suspension is a non-negative number of
\* milliseconds no greater than the effective maximum delay, for every retry
\* number, every Retry-After value (seconds or date, positive, zero or negative),
\* every delay strategy and every configured maxDelay (setTimeout treats a
\* negative delay as none).
C27_Original ==
  timer.armed => Max(0, timer.delay) >= 0 /\ Max(0, timer.delay) <= EffectiveMaxDelay

\* C28: auth headers are resolved anew for every physical attempt: every attempt
\* carries the credential the provider returned for this iteration, which is one
\* the token service held no earlier than the credential of the attempt before, and
\* an attempt that follows a completed refresh carries a credential refreshed after
\* the one of the failed attempt, never that one.
C28_HeadersPerAttempt ==
  [][\A c \in Calls :
       call[c].pc = "auth" /\ call'[c].pc = "send" /\ call'[c].sent = call[c].sent + 1
       => /\ call'[c].cred = call[c].val[3]
          /\ call'[c].cred <= token[call[c].accountId]
          /\ call[c].sent >= 1 => call'[c].cred >= call[c].cred
          /\ (/\ call[c].sent >= 1 /\ call[c].recoveries >= 1
              /\ GetHook(call[c].status).handler = "refresh")
             => call'[c].cred > call[c].cred]_vars

\* the only call made failed with 401 carrying the first credential, the default
\* handler refreshed it once, and the second attempt is in flight with the new one
C28_Witness ==
  \E c \in Calls :
    /\ \A d \in Calls \ {c} : call[d].pc = "idle"
    /\ call[c].pc = "send" /\ call[c].sent = 2 /\ call[c].useAuth
    /\ call[c].status = 401 /\ call[c].handlerRuns = 1 /\ call[c].recoveries = 1
    /\ GetHook(401).handler = "refresh"
    /\ token[call[c].accountId] = 1 /\ call[c].cred = 1

\* ------------------------------------------------------ patches of a handler
\* what a handler resolves with: {}, a top-level field, a headers object with an
\* entry of its own, a headers object with an Authorization entry, or all of them
Patches ==
  {EmptyPatch,
   Patch(1, FALSE, NoHeaders),
   Patch(Undefined, TRUE, [NoHeaders EXCEPT !["Trace"] = Patched(1)]),
   Patch(Undefined, TRUE, [NoHeaders EXCEPT !["Authorization"] = Patched(1)]),
   Patch(2, TRUE, [h \in HeaderNames |-> Patched(2)])}

\* two calls for one account, with and without authentication, whose attempts
\* fail with 401 and whose handler (a user handler that two retries may call,
\* shared by concurrent callers) resolves with any of the patches
NextPatch ==
  \/ Setup(FALSE,
           [NoHooks EXCEPT
              ![401] = Hook(TRUE, FALSE, TRUE, 2, "user", "none", "none")],
           0, FALSE)
  \/ \E c \in TwoCalls, ua \in BOOLEAN : StartCall(c, "default", ua, DefaultRequest)
  \/ \E c \in Calls : AuthSettle(c, FALSE)
  \/ \E c \in Calls, d \in Data : TransportOk(c, d)
  \/ \E c \in Calls : TransportFail(c, 401)
  \/ \E e \in Calls, patch \in Patches : HandlerResolves(e, TRUE, patch)
  \/ ResumeAuth
  \/ ResumeSend
  \/ ResumeRetFail
  \/ ResumeHook
  \/ ResumeRetHook(NoHeader, 0)
  \/ ResumeRet
SpecPatch == Init /\ [][NextPatch]_vars

\* the step in which call c merges the result of processHook into its parameters
MergesPatch(c) ==
  /\ call[c].pc = "retHook" /\ call'[c].pc \in {"auth", "send", "delay"}

\* the step in which call c hands its parameters to httpClient.makeRequest
SendsAttempt(c) == call'[c].sent = call[c].sent + 1

\* C29: when a recovery handler resolves with a patch, every field of the patch
\* (header entries included) has the handler's value in the parameters of the next
\* physical attempt of the call, and keeps it on later attempts unless a later
\* patch overwrites it: the merge puts every field of the patch into the
\* parameters and leaves the fields the patch lacks alone, and handing the
\* parameters to the transport changes no value that came from a patch.
C29_Original ==
  [][\A c \in Calls :
       LET patch == call[c].hookResult
           merged == IF MergesPatch(c)
                     THEN MergePatch(call[c].params, patch) ELSE call[c].params
       IN
       /\ MergesPatch(c)
          => /\ patch.data # Undefined => merged.data = patch.data
             /\ patch.data = Undefined => merged.data = call[c].params.data
             /\ \A h \in HeaderNames :
                  patch.hasHeaders /\ patch.headers[h] # NoHeaderEntry
                  => merged.headers[h] = patch.headers[h]
             /\ ~patch.hasHeaders => merged.headers = call[c].params.headers
       /\ MergesPatch(c) /\ ~SendsAttempt(c) => call'[c].params = merged
       /\ SendsAttempt(c)
          => /\ merged.data # 0 => call'[c].params.data = merged.data
             /\ \A h \in HeaderNames :
                  merged.headers[h][1] = "patch"
                  => call'[c].params.headers[h] = merged.headers[h]]_vars

\* C31: the cache gains or changes an entry only in the step in which a logical
\* call that ended successfully returns to its caller, under that call's key, with
\* that call's response and the time of the write, every other entry staying as it
\* was; the call returns the response it stored, and a logical call that rejects
\* leaves the cache unchanged.
C31_CacheWrites ==
  [][/\ cache' # cache
        => \E c \in Calls :
             /\ call[c].pc = "ret" /\ call'[c].pc = "done"
             /\ call[c].exit = "success" /\ call[c].result[1] = "ok"
             /\ cache' = [cache EXCEPT ![GetRequestKey(call[c])] =
                            [data |-> call[c].result[2], timestamp |-> now,
                             params |-> Identity(call[c])]]
     /\ \A c \in Calls :
          call[c].pc = "ret" /\ call'[c].pc = "done"
          => /\ call'[c].result = call[c].result
             /\ IF IsError(call[c].result)
                THEN cache' = cache
                ELSE /\ cache'[GetRequestKey(call[c])].data = call[c].result[2]
                     /\ cache'[GetRequestKey(call[c])].timestamp = now]_vars

\* one call has returned a response that the cache now holds under its key, another
\* call has rejected, and the entries of the other keys were never written
C31_Witness ==
  \E c, d \in Calls :
    /\ call[c].pc = "done" /\ call[c].exit = "success"
    /\ cache[GetRequestKey(call[c])].data = call[c].result[2]
    /\ cache[GetRequestKey(call[c])].params = Identity(call[c])
    /\ call[d].pc = "done" /\ call[d].exit = "exhausted" /\ IsError(call[d].result)
    /\ \E k \in CacheKeys : k # GetRequestKey(call[c]) /\ cache[k] = NoEntry

\* ------------------------------------------------ recoveries of several keys
\* two calls for one or two accounts whose attempts fail with either status, under user
\* handlers with preventConcurrentCalls for both statuses (one retry each) that
\* resolve with a patch or reject
NextKeys ==
  \/ Setup(FALSE,
           [NoHooks EXCEPT
              ![401] = Hook(TRUE, FALSE, TRUE, 1, "user", "none", "none"),
              ![429] = Hook(TRUE, FALSE, TRUE, 1, "user", "none", "none")],
           0, FALSE)
  \/ \E c \in TwoCalls : \E a \in AccountsOf(c) :
        StartCall(c, a, FALSE, DefaultRequest)
  \/ \E c \in Calls, s \in Statuses : TransportFail(c, s)
  \/ \E e \in Calls, patch \in {EmptyPatch, Patch(1, FALSE, NoHeaders)} :
        HandlerResolves(e, TRUE, patch)
  \/ \E e \in Calls : HandlerSettle(e, FALSE)
  \/ ResumeSend
  \/ ResumeRetFail
  \/ ResumeHook
  \/ ResumeRetHook(NoHeader, 0)
  \/ ResumeRet
SpecKeys == Init /\ [][NextKeys]_vars

\* C32: recovery executions for different (accountId, status) keys are independent.
\* A call that enters recovery awaits a stored execution only if it was started for
\* the call's own account and status; when no promise is stored under its own key
\* it starts a handler execution of its own, whatever is in flight for other
\* accounts or statuses; and the result it resumes with is the one of an execution
\* for its own key.
C32_KeysIndependent ==
  [][\A c \in Calls :
       LET key == <<call[c].accountId, call'[c].status>> IN
       /\ call[c].pc # "hook" /\ call'[c].pc = "hook"
          => /\ call'[c].joined
                  => /\ hookPromises[key] = call'[c].awaiting
                     /\ execs[call'[c].awaiting].key = key
             /\ hookPromises[key] = 0
                  => /\ ~call'[c].joined /\ call'[c].awaiting = c
                     /\ call'[c].handlerRuns = call[c].handlerRuns + 1
                     /\ execs'[c].key = key /\ execs'[c].state = "pending"
                     /\ execs'[c].waiters = <<c>>
       /\ call[c].pc = "hook" /\ call'[c].pc = "retHook"
          => /\ execs[call[c].awaiting].key = KeyOf(c)
             /\ ~IsError(call'[c].val)
                  => call'[c].hookResult = execs[call[c].awaiting].result]_vars

\* two calls of one account are in recovery for different statuses at once, each
\* awaiting a handler execution of its own that is still in flight
C32_Witness ==
  \E c, d \in Calls :
    /\ InRecovery(c) /\ InRecovery(d)
    /\ call[c].accountId = call[d].accountId /\ call[c].status # call[d].status
    /\ ~call[c].joined /\ ~call[d].joined
    /\ call[c].awaiting = c /\ call[d].awaiting = d
    /\ execs[c].state = "pending" /\ execs[d].state = "pending"
    /\ execs[c].key = KeyOf(c) /\ execs[d].key = KeyOf(d)

\* C33: every handler execution a call requested and every backoff wait of the call
\* is followed by another physical attempt of the call unless the handler rejected:
\* a call that has ended otherwise has made more attempts than it has run handlers
\* and more attempts than it has waited delays, also when the attempts ceiling
\* ended it (a call that ended because its credentials were gone when it came to
\* the next attempt is left aside).
C33_Original ==
  \A c \in Calls :
    Ended(c) /\ call[c].exit \notin {"handlerFailed", "nocreds"}
    => /\ call[c].handlerRuns > 0 => call[c].handlerRuns < call[c].sent
       /\ call[c].delays > 0 => call[c].delays < call[c].sent

\* C34: within one call, recovery for a status is entered at most maxRetries times,
\* maxRetries being the hook's own and otherwise the service default of 4: every
\* entry into recovery is for a failure with the status that the call counts as its
\* next one of that status, the counts of the other statuses staying as they were,
\* and that count is within the limit.
C34_RecoveriesWithinLimit ==
  [][\A c \in Calls :
       call'[c].recoveries = call[c].recoveries + 1
       => LET s == call'[c].status
              limit == IF GetHook(s).maxRetries # Undefined
                       THEN GetHook(s).maxRetries ELSE 4
          IN
          /\ call'[c].statusRetries[s] = call[c].statusRetries[s] + 1
          /\ \A t \in Statuses \ {s} :
               call'[c].statusRetries[t] = call[c].statusRetries[t]
          /\ call'[c].statusRetries[s] <= limit
          /\ call'[c].recoveries <= call'[c].statusRetries[401]
                                    + call'[c].statusRetries[429]]_vars

\* under a hook without maxRetries a call has recovered four times from 429 and has
\* rejected when its fifth attempt failed with 429 too
C34_Witness ==
  \E c \in Calls :
    /\ GetHook(429).kind = "hook" /\ GetHook(429).maxRetries = Undefined
    /\ call[c].pc = "done" /\ call[c].exit = "exhausted"
    /\ call[c].statusRetries[429] = 5 /\ call[c].recoveries = 4 /\ call[c].sent = 5

\* C35: when a handler execution that several concurrent callers await (the hook has
\* preventConcurrentCalls) rejects, onHandlerError is invoked once for that
\* execution, not once per caller, and every call that awaited it rejects with the
\* handler's rejection (a call whose onHandlerError threw is left aside).
C35_Original ==
  /\ \A e \in Calls :
       execs[e].state = "rejected" /\ Prevent(execs[e].key)
       => Cardinality({c \in Calls : /\ call[c].awaiting = e
                                     /\ KeyOf(c) = execs[e].key
                                     /\ call[c].onErrRuns > 0}) <= 1
  /\ \A c \in Calls :
       Ended(c) /\ call[c].exit = "handlerFailed" /\ call[c].result[1] # "callback"
       => /\ call[c].result = HandlerError(call[c].awaiting)
          /\ execs[call[c].awaiting].state = "rejected"

SetupAgain(authRefresh, hooksOpt) ==
  /\ ready
  /\ authHasRefresh' = authRefresh
  /\ hooksOption' = hooksOpt
  /\ hooks' = SetHooks(hooks, FinalHooks(authRefresh, hooksOpt))
  /\ UNCHANGED <<ready, queryParamName, cacheTime, maxAttempts, hookPromises, execs,
                 accounts, cache, now, jobs, call, defaultMaxDelay, timer, token,
                 refreshToken, fetchError>>

\* a call on a service that was set up any number of times before
NextSetups ==
  \/ Step({1})
  \/ call[1].pc = "idle" /\ \E su \in Setups : SetupAgain(su.authRefresh, su.hooks)
SpecSetups == Init /\ [][NextSetups]_vars

\* C37: after any sequence of setup calls the hooks in effect are exactly those the
\* most recent setup determines: its own hooks, the default 401 hook when it leaves
\* 401 open and its auth provider can refresh, and nothing else.
C37_Original ==
  ready => hooks = FinalHooks(authHasRefresh, hooksOption)

\* C38: a refresh through TokenAuthProvider stores the new access token together
\* with a usable refresh token: the credential store's refresh operation is called
\* with the refresh token the store holds for the account, and a stored refresh
\* token that is not empty is never replaced by an empty one, after any number of
\* recoveries by the default 401 hook.
C38_Original ==
  [][\A a \in Accounts :
       token'[a] # token[a]
       => /\ PassedRefreshToken = refreshToken[a]
          /\ refreshToken[a] # "" => refreshToken'[a] # ""]_vars

\* ------------------------------------------------------------- FetchError
\* getMessage(data, locations): the value at the first location that holds a
\* string, or null when there is none or when that string is empty (`|| null`).
\* data lists what the body holds at error.errors.0.message, error.message, message:
\* <<"string", text>> for a string, <<"other", "">> for anything else, which also
\* stands for null
GetMessage(data) ==
  IF \A i \in 1..Len(data) : data[i][1] # "string" THEN <<"other", "">>
  ELSE LET first == CHOOSE i \in 1..Len(data) :
                      /\ data[i][1] = "string"
                      /\ \A j \in 1..(i - 1) : data[j][1] # "string"
       IN IF data[first][2] # "" THEN data[first] ELSE <<"other", "">>

\* new FetchError(response, data): message and status
FetchError(data, statusText, status) ==
  /\ fetchError' =
       [made |-> TRUE, data |-> data, statusText |-> statusText,
        responseStatus |-> status, status |-> status,
        message |-> IF GetMessage(data) # <<"other", "">> THEN GetMessage(data)[2]
                    ELSE IF statusText # "" THEN statusText
                    ELSE "An unspecified error occurred"]
  /\ UNCHANGED <<ready, authHasRefresh, maxAttempts, hooks, hookPromises, execs,
                 accounts, cache, cacheTime, now, jobs, call, hooksOption,
                 queryParamName, defaultMaxDelay, timer, token, refreshToken>>

\* errors made from response bodies that hold a text, an empty string or something
\* else at each of the three locations, with and without a status text
NextFetch ==
  \E m1 \in {<<"other", "">>, <<"string", "">>, <<"string", "first">>},
     m2 \in {<<"other", "">>, <<"string", "">>, <<"string", "second">>},
     m3 \in {<<"other", "">>, <<"string", "">>, <<"string", "third">>},
     statusText \in {"", "Not Found"}, status \in Statuses \cup {404} :
    FetchError(<<m1, m2, m3>>, statusText, status)
SpecFetch == Init /\ [][NextFetch]_vars

\* C39: the message of a transport error is the first non-empty string found, in
\* priority order, at error.errors.0.message, error.message and message of the
\* response body; when none of them holds a non-empty string it is the status text
\* of the response, and when that is empty the generic default; and the error
\* carries the status of the response.
C39_Original ==
  fetchError.made
  => LET data == fetchError.data
         nonEmpty == {i \in 1..3 : data[i][1] = "string" /\ data[i][2] # ""}
     IN
     /\ fetchError.message =
          IF nonEmpty # {}
          THEN data[CHOOSE i \in nonEmpty : \A j \in nonEmpty : i <= j][2]
          ELSE IF fetchError.statusText # "" THEN fetchError.statusText
          ELSE "An unspecified error occurred"
     /\ fetchError.status = fetchError.responseStatus

====
